---- MODULE Spec2Model ----
(***************************************************************************)
(* Model of SrtmAPI: GetElevations (src/src/GetElevations.py), the frame   *)
(* normalisation of LoadGeo.to_crs (src/src/LoadGeo.py) and the loading    *)
(* step of Orchestrator (src/Orchestrator.py).                             *)
(*                                                                         *)
(* Python lists are modelled as sequences; a Python index k is the         *)
(* sequence position k + 1.  The column "original_index" keeps the Python  *)
(* (0-based) value.                                                        *)
(***************************************************************************)
EXTENDS Integers, Sequences, FiniteSets, TLC

VARIABLES
    srtm_reference,   \* tile index rows handed to GetElevations
    id_dtype,         \* dtype of the "id" column of the tile index
    srtm_crs,         \* frame tag of the tile index
    coords,           \* ordered points (geometry column)
    coords_crs,       \* frame tag of the points
    fs_kind,          \* what images_folder is on disk: "dir", "file", "missing"
    files,            \* names of the raster files inside images_folder
    fs_changed,       \* the filesystem was changed after construction
    is_dir,           \* GetElevations.is_dir
    pc,               \* position of the run
    joined,           \* rows of the spatial join
    joined_dtype,     \* dtype of joined["id"]
    elevations,       \* the list being filled by _process_directory
    groups,           \* keys of joined.groupby("id") still to iterate
    raster_path,      \* file name of the raster of the current group
    subset,           \* rows of the current group
    coords_list,      \* batch handed to the sampler
    vals,             \* values returned by the sampler
    exc,              \* an exception is propagating out of the with block
    open,             \* raster handles currently open
    opens,            \* every raster opened so far, in order
    calls,            \* sampler invocations so far, in order
    log,              \* lines printed so far, in order
    writes,           \* per Python index, number of assignments elevations[i] = val
    ret,              \* list returned by get()
    error             \* exception raised by get(), "" when none

vars == <<srtm_reference, id_dtype, srtm_crs, coords, coords_crs, fs_kind,
          files, fs_changed, is_dir, pc, joined, joined_dtype, elevations,
          groups, raster_path, subset, coords_list, vals, exc, open, opens,
          calls, log, writes, ret, error>>

inputVars == <<srtm_reference, id_dtype, coords>>
fsVars    == <<fs_kind, files>>
runVars   == <<joined, joined_dtype, elevations, groups, raster_path, subset,
               coords_list, vals, exc, open, opens, calls, log, writes, ret,
               error>>

(***************************************************************************)
(* Bounds of the model.                                                    *)
(***************************************************************************)
MaxPoints == 3          \* longest point sequence
MaxLon    == 2          \* longitudes range over 0..MaxLon

Lons == 0..MaxLon
Lats == {1}
Points == Lons \X Lats

RECURSIVE SeqsUpTo(_, _)
SeqsUpTo(S, n) ==
    IF n = 0 THEN {<<>>}
    ELSE LET shorter == SeqsUpTo(S, n - 1)
         IN  shorter \cup {Append(s, e) : s \in {t \in shorter : Len(t) = n - 1}, e \in S}

(***************************************************************************)
(* Values.                                                                 *)
(***************************************************************************)
None == -1              \* Python None; raster values of the model are >= 0
NaN  == 0               \* missing id of a left-join row; tile ids are >= 1

\* Tile indexes: rows of (id, extent).  In TilesAdjacent the two tiles share the
\* edge lon = 1; in TilesOverlap both tiles contain lon = 1.
Tile(id, xmin, xmax) == [id |-> id, xmin |-> xmin, xmax |-> xmax, ymin |-> 0, ymax |-> 2]
TilesAdjacent == << Tile(1, -1, 1), Tile(2, 1, 3) >>
TilesOverlap  == << Tile(1, -1, 2), Tile(2, 0, 2) >>
TileIndexes   == {TilesAdjacent, TilesOverlap}
TileIds       == {1, 2}

\* shapely "within": a point on the boundary of a polygon is not within it.
Within(p, t) == t.xmin < p[1] /\ p[1] < t.xmax /\ t.ymin < p[2] /\ p[2] < t.ymax


(***************************************************************************)
(* Reference frames (LoadGeo).                                             *)
(***************************************************************************)
WGS84  == "EPSG:4326"    \* LoadGeo.crs_degress
SIRGAS == "EPSG:4674"    \* another geographic frame
UTM    == "EPSG:32723"   \* a projected frame
Frames == {WGS84, SIRGAS, UTM}

is_geographic(crs) == crs \in {WGS84, SIRGAS}

find_utm(crs) == UTM

to_crs(crs, crs_type) ==
    IF crs_type = "degress" /\ ~is_geographic(crs) THEN WGS84
    ELSE IF crs_type = "meters" /\ is_geographic(crs) THEN find_utm(crs)
    ELSE crs

(***************************************************************************)
(* Paths and rasters.                                                      *)
(***************************************************************************)
ImagesFolder == "images"

Labels == <<"A", "B">>      \* ids of an object (string) column
Digits == <<"1", "2">>      \* str() of the ids of an integer column

\* f"{idx}" for a group key of a column of the given dtype
FormatId(dtype, id) ==
    IF dtype = "object" THEN Labels[id]
    ELSE IF dtype = "int64" THEN Digits[id]
    ELSE Digits[id] \o ".0"

\* os.path.join(self.images_folder, f"{idx}.gpkg")
RasterPath(dtype, id) == ImagesFolder \o "/" \o FormatId(dtype, id) \o ".gpkg"

\* the raster file of tile id under the naming convention <folder>/<id>.gpkg
TileFile(id) == RasterPath(id_dtype, id)

\* variant: every path that is not a regular file counts as a directory
isdirLoose(kind) == kind # "file"

isdir(kind) == kind = "dir"

\* os.path.exists
exists(path) ==
    IF path = ImagesFolder THEN fs_kind # "missing"
    ELSE fs_kind = "dir" /\ path \in files

\* content of the rasters: the raster of tile id holds 100 * id + 10 * lon + lat,
\* the single raster holds 10 * lon + lat
RasterNo(path) ==
    IF \E id \in TileIds : path \in {RasterPath("object", id), RasterPath("int64", id)}
    THEN CHOOSE id \in TileIds : path \in {RasterPath("object", id), RasterPath("int64", id)}
    ELSE 0

Elev(path, c) == 100 * RasterNo(path) + 10 * c[1] + c[2]

\* value_from_src: one value per coordinate, in the order given
value_from_src(cs, path) == [k \in 1..Len(cs) |-> Elev(path, cs[k])]

(***************************************************************************)
(* The spatial join and the grouping of _process_directory.                *)
(***************************************************************************)
\* rows of the tile index whose extent contains p, in tile-index order
Matches(p, tiles) == SelectSeq(tiles, LAMBDA t : Within(p, t))

\* gpd.sjoin(coords, srtm_reference, how="left", predicate="within"): the rows
\* follow the left (point) order; a point within k >= 1 tiles yields k rows that
\* share its index label, a point within no tile yields one row with id NaN
RECURSIVE sjoinFrom(_, _, _)
sjoinFrom(cs, tiles, k) ==
    IF k > Len(cs) THEN <<>>
    ELSE LET m    == Matches(cs[k], tiles)
             rows == IF m = <<>>
                     THEN << [index |-> k - 1, geometry |-> cs[k], id |-> NaN] >>
                     ELSE [j \in 1..Len(m) |->
                             [index |-> k - 1, geometry |-> cs[k], id |-> m[j].id]]
         IN  rows \o sjoinFrom(cs, tiles, k + 1)

sjoin(cs, tiles) == sjoinFrom(cs, tiles, 1)

\* joined["id"].isna().any()
AnyNa(rows) == \E k \in 1..Len(rows) : rows[k].id = NaN

\* dtype of the id column after the left join: an integer column that receives
\* a missing value is upcast to float64
JoinedDtype(dtype, rows) ==
    IF dtype = "int64" /\ AnyNa(rows) THEN "float64" ELSE dtype

\* joined.reset_index(drop=False).rename(columns={"index": "original_index"})
reset_index(rows) ==
    [k \in 1..Len(rows) |->
        [original_index |-> rows[k].index, geometry |-> rows[k].geometry, id |-> rows[k].id]]

\* the print of line 89, once per run
UnmatchedWarning == "Warning: Some points are not contained within any SRTM grid."
WarnUnmatched(rows) == IF AnyNa(rows) THEN <<UnmatchedWarning>> ELSE <<>>

\* the print of line 105
MissingWarning(path) == "Raster not found: " \o path

\* variant: the list starts filled with zeros
ZeroList(n) == [k \in 1..n |-> 0]

\* [None] * len(joined)
NoneList(n) == [k \in 1..n |-> None]

RECURSIVE SortedSeq(_)
SortedSeq(S) ==
    IF S = {} THEN <<>>
    ELSE LET m == CHOOSE x \in S : \A y \in S : x <= y
         IN  <<m>> \o SortedSeq(S \ {m})

\* keys of joined.groupby("id"): distinct, sorted, missing keys dropped
GroupKeys(rows) == SortedSeq({rows[k].id : k \in 1..Len(rows)} \ {NaN})

\* the rows of one group, in their order in joined
Group(rows, key) == SelectSeq(rows, LAMBDA r : r.id = key)

\* [(geom.x, geom.y) for geom in subset.geometry]
CoordsOf(rows) == [k \in 1..Len(rows) |-> rows[k].geometry]

\* for orig_idx, val in zip(subset["original_index"], vals): elevations[orig_idx] = val
RECURSIVE Scatter(_, _, _, _)
Scatter(elev, rows, vs, k) ==
    IF k > Len(rows) \/ k > Len(vs) THEN elev
    ELSE Scatter([elev EXCEPT ![rows[k].original_index + 1] = vs[k]], rows, vs, k + 1)

\* number of assignments the scatter loop makes to Python index i
WritesTo(rows, vs, i) ==
    Cardinality({k \in 1..Len(rows) : k <= Len(vs) /\ rows[k].original_index = i})

\* variant: the handle is closed on the normal path only
CloseOnSuccess(handles, path, raised) == IF raised THEN handles ELSE handles \ {path}

\* leaving a "with rasterio.open(...) as src" block closes src, on the normal
\* and on the exceptional path
WithExit(handles, path, raised) == handles \ {path}

(***************************************************************************)
(* Initial states: the inputs of one run, before Orchestrator.process.     *)
(* coords_crs = "inline" stands for an inline list of coordinate pairs,    *)
(* which carries no frame until _load_data builds the GeoDataFrame.        *)
(***************************************************************************)
Idle ==
    /\ is_dir = FALSE
    /\ fs_changed = FALSE
    /\ joined = <<>>
    /\ joined_dtype = id_dtype
    /\ elevations = <<>>
    /\ groups = <<>>
    /\ raster_path = ""
    /\ subset = <<>>
    /\ coords_list = <<>>
    /\ vals = <<>>
    /\ exc = FALSE
    /\ open = {}
    /\ opens = <<>>
    /\ calls = <<>>
    /\ log = <<>>
    /\ writes = <<>>
    /\ ret = <<>>
    /\ error = ""

Init ==
    /\ srtm_reference \in TileIndexes
    /\ id_dtype \in {"object", "int64"}
    /\ srtm_crs \in Frames
    /\ coords \in SeqsUpTo(Points, MaxPoints)
    /\ coords_crs \in Frames \cup {"inline"}
    /\ fs_kind \in {"dir", "file", "missing"}
    /\ files \in SUBSET {TileFile(id) : id \in TileIds}
    /\ fs_kind # "dir" => files = {}
    /\ pc = "start"
    /\ Idle

(***************************************************************************)
(* Orchestrator._load_data and GetElevations.__init__.                     *)
(***************************************************************************)
LoadData ==
    /\ pc = "start"
    /\ srtm_crs' = to_crs(srtm_crs, "degress")
    /\ coords_crs' = IF coords_crs = "inline" THEN WGS84
                     ELSE to_crs(coords_crs, "degress")
    /\ pc' = "loaded"
    /\ UNCHANGED <<inputVars, fsVars, fs_changed, is_dir, runVars>>

Construct ==
    /\ pc = "loaded"
    /\ is_dir' = isdir(fs_kind)
    /\ pc' = "constructed"
    /\ UNCHANGED <<inputVars, srtm_crs, coords_crs, fsVars, fs_changed, runVars>>

\* The environment replaces what images_folder is between construction and get().
FsChange ==
    /\ pc = "constructed"
    /\ ~fs_changed
    /\ \E k \in {"dir", "file", "missing"} \ {fs_kind} :
          /\ fs_kind' = k
          /\ \E fl \in SUBSET {TileFile(id) : id \in TileIds} :
                /\ k # "dir" => fl = {}
                /\ files' = fl
    /\ fs_changed' = TRUE
    /\ UNCHANGED <<inputVars, srtm_crs, coords_crs, is_dir, pc, runVars>>

(***************************************************************************)
(* GetElevations.get and _process_single_raster.                           *)
(***************************************************************************)
Get ==
    /\ pc = "constructed"
    /\ pc' = IF is_dir THEN "directory" ELSE "single"
    /\ UNCHANGED <<inputVars, srtm_crs, coords_crs, fsVars, fs_changed, is_dir, runVars>>

SingleCheck ==
    /\ pc = "single"
    /\ IF ~exists(ImagesFolder)
       THEN /\ error' = "FileNotFoundError"
            /\ pc' = "raised"
            /\ UNCHANGED <<coords_list, raster_path>>
       ELSE /\ coords_list' = coords
            /\ raster_path' = ImagesFolder
            /\ pc' = "single_open"
            /\ UNCHANGED error
    /\ UNCHANGED <<inputVars, srtm_crs, coords_crs, fsVars, fs_changed, is_dir,
                   joined, joined_dtype, elevations, groups, subset, vals, exc,
                   open, opens, calls, log, writes, ret>>

\* rasterio.open: yields a handle, or raises when the path cannot be read as a
\* raster (a directory never can)
SingleOpen ==
    /\ pc = "single_open"
    /\ \/ /\ fs_kind = "file"
          /\ open' = open \cup {raster_path}
          /\ opens' = Append(opens, raster_path)
          /\ pc' = "single_sample"
          /\ UNCHANGED error
       \/ /\ error' = "RasterioIOError"
          /\ pc' = "raised"
          /\ UNCHANGED <<open, opens>>
    /\ UNCHANGED <<inputVars, srtm_crs, coords_crs, fsVars, fs_changed, is_dir,
                   joined, joined_dtype, elevations, groups, raster_path, subset,
                   coords_list, vals, exc, calls, log, writes, ret>>

\* self.value_from_src(coords_list, src): returns the values or raises
SingleSample ==
    /\ pc = "single_sample"
    /\ calls' = Append(calls, [path |-> raster_path, batch |-> coords_list])
    /\ \/ /\ vals' = value_from_src(coords_list, raster_path)
          /\ exc' = FALSE
       \/ /\ exc' = TRUE
          /\ UNCHANGED vals
    /\ pc' = "single_exit"
    /\ UNCHANGED <<inputVars, srtm_crs, coords_crs, fsVars, fs_changed, is_dir,
                   joined, joined_dtype, elevations, groups, raster_path, subset,
                   coords_list, open, opens, log, writes, ret, error>>

SingleExit ==
    /\ pc = "single_exit"
    /\ open' = WithExit(open, raster_path, exc)
    /\ IF exc
       THEN /\ error' = "SampleError"
            /\ pc' = "raised"
       ELSE /\ pc' = "single_return"
            /\ UNCHANGED error
    /\ UNCHANGED <<inputVars, srtm_crs, coords_crs, fsVars, fs_changed, is_dir,
                   joined, joined_dtype, elevations, groups, raster_path, subset,
                   coords_list, vals, exc, opens, calls, log, writes, ret>>

SingleReturn ==
    /\ pc = "single_return"
    /\ ret' = vals
    /\ pc' = "done"
    /\ UNCHANGED <<inputVars, srtm_crs, coords_crs, fsVars, fs_changed, is_dir,
                   joined, joined_dtype, elevations, groups, raster_path, subset,
                   coords_list, vals, exc, open, opens, calls, log, writes, error>>

(***************************************************************************)
(* GetElevations._process_directory.                                       *)
(***************************************************************************)
\* lines 85-94: join, warning, index column, result list
SpatialJoin ==
    /\ pc = "directory"
    /\ LET rows == sjoin(coords, srtm_reference)
       IN  /\ joined' = reset_index(rows)
           /\ joined_dtype' = JoinedDtype(id_dtype, rows)
           /\ log' = log \o WarnUnmatched(rows)
           /\ elevations' = NoneList(Len(rows))
           /\ writes' = [k \in 1..Len(rows) |-> 0]
           /\ groups' = GroupKeys(rows)
    /\ pc' = "loop"
    /\ UNCHANGED <<inputVars, srtm_crs, coords_crs, fsVars, fs_changed, is_dir,
                   raster_path, subset, coords_list, vals, exc, open, opens,
                   calls, ret, error>>

\* lines 97-108 and 116: next group, its raster path, skip when the raster is
\* missing; return when the groups are exhausted
NextGroup ==
    /\ pc = "loop"
    /\ IF groups = <<>>
       THEN /\ ret' = elevations
            /\ pc' = "done"
            /\ UNCHANGED <<groups, raster_path, subset, coords_list, log>>
       ELSE LET idx  == Head(groups)
                path == RasterPath(joined_dtype, idx)
            IN  /\ groups' = Tail(groups)
                /\ raster_path' = path
                /\ subset' = Group(joined, idx)
                /\ IF ~exists(path)
                   THEN /\ log' = Append(log, MissingWarning(path))
                        /\ pc' = "loop"
                        /\ UNCHANGED coords_list
                   ELSE /\ coords_list' = CoordsOf(Group(joined, idx))
                        /\ pc' = "dir_open"
                        /\ UNCHANGED log
                /\ UNCHANGED ret
    /\ UNCHANGED <<inputVars, srtm_crs, coords_crs, fsVars, fs_changed, is_dir,
                   joined, joined_dtype, elevations, vals, exc, open, opens,
                   calls, writes, error>>

\* line 110: rasterio.open
DirOpen ==
    /\ pc = "dir_open"
    /\ \/ /\ open' = open \cup {raster_path}
          /\ opens' = Append(opens, raster_path)
          /\ pc' = "dir_sample"
          /\ UNCHANGED error
       \/ /\ error' = "RasterioIOError"
          /\ pc' = "raised"
          /\ UNCHANGED <<open, opens>>
    /\ UNCHANGED <<inputVars, srtm_crs, coords_crs, fsVars, fs_changed, is_dir,
                   joined, joined_dtype, elevations, groups, raster_path, subset,
                   coords_list, vals, exc, calls, log, writes, ret>>

\* line 111: one sampler invocation with the whole batch of the group
DirSample ==
    /\ pc = "dir_sample"
    /\ calls' = Append(calls, [path |-> raster_path, batch |-> coords_list])
    /\ \/ /\ vals' = value_from_src(coords_list, raster_path)
          /\ exc' = FALSE
       \/ /\ exc' = TRUE
          /\ UNCHANGED vals
    /\ pc' = "dir_exit"
    /\ UNCHANGED <<inputVars, srtm_crs, coords_crs, fsVars, fs_changed, is_dir,
                   joined, joined_dtype, elevations, groups, raster_path, subset,
                   coords_list, open, opens, log, writes, ret, error>>

\* end of the with block of lines 110-111
DirExit ==
    /\ pc = "dir_exit"
    /\ open' = WithExit(open, raster_path, exc)
    /\ IF exc
       THEN /\ error' = "SampleError"
            /\ pc' = "raised"
       ELSE /\ pc' = "scatter"
            /\ UNCHANGED error
    /\ UNCHANGED <<inputVars, srtm_crs, coords_crs, fsVars, fs_changed, is_dir,
                   joined, joined_dtype, elevations, groups, raster_path, subset,
                   coords_list, vals, exc, opens, calls, log, writes, ret>>

\* lines 113-114
ScatterBack ==
    /\ pc = "scatter"
    /\ elevations' = Scatter(elevations, subset, vals, 1)
    /\ writes' = [k \in 1..Len(writes) |-> writes[k] + WritesTo(subset, vals, k - 1)]
    /\ pc' = "loop"
    /\ UNCHANGED <<inputVars, srtm_crs, coords_crs, fsVars, fs_changed, is_dir,
                   joined, joined_dtype, groups, raster_path, subset, coords_list,
                   vals, exc, open, opens, calls, log, ret, error>>

Next ==
    \/ LoadData
    \/ Construct
    \/ FsChange
    \/ Get
    \/ SingleCheck
    \/ SingleOpen
    \/ SingleSample
    \/ SingleExit
    \/ SingleReturn
    \/ SpatialJoin
    \/ NextGroup
    \/ DirOpen
    \/ DirSample
    \/ DirExit
    \/ ScatterBack

Spec == Init /\ [][Next]_vars

TypeOK ==
    /\ pc \in {"start", "loaded", "constructed", "single", "single_open",
               "single_sample", "single_exit", "single_return", "directory",
               "loop", "dir_open", "dir_sample", "dir_exit", "scatter",
               "done", "raised"}
    /\ is_dir \in BOOLEAN
    /\ Len(coords) <= MaxPoints

(***************************************************************************)
(* Vocabulary of the properties.                                           *)
(***************************************************************************)
\* ids of the tiles whose extent contains point number i (1-based)
TilesOf(i) ==
    {srtm_reference[k].id : k \in {j \in 1..Len(srtm_reference) : Within(coords[i], srtm_reference[j])}}

UnmatchedPoints == {i \in 1..Len(coords) : TilesOf(i) = {}}

\* coordinates of the points within tile id, in input order
BatchOf(id) ==
    SelectSeq(coords, LAMBDA p : \E k \in 1..Len(srtm_reference) :
                                    srtm_reference[k].id = id /\ Within(p, srtm_reference[k]))

\* the run is in _process_directory, after the join
AfterJoin == pc \in {"loop", "dir_open", "dir_sample", "dir_exit", "scatter"}
             \/ (is_dir /\ pc \in {"done", "raised"})

\* get() has been entered
InGet == pc \notin {"start", "loaded", "constructed"}

Count(seq, Test(_)) == Cardinality({k \in 1..Len(seq) : Test(seq[k])})

\* the result _process_directory returns from the current join when exactly the
\* rasters in fl exist and no raster operation raises
RECURSIVE RunFrom(_, _, _)
RunFrom(elev, keys, fl) ==
    IF keys = <<>> THEN elev
    ELSE LET path == RasterPath(joined_dtype, Head(keys))
             rows == Group(joined, Head(keys))
         IN  IF path \in fl
             THEN RunFrom(Scatter(elev, rows, value_from_src(CoordsOf(rows), path), 1),
                          Tail(keys), fl)
             ELSE RunFrom(elev, Tail(keys), fl)

RunResult(fl) == RunFrom(NoneList(Len(joined)), GroupKeys(joined), fl)

\* a "Raster not found" line about the raster of tile id
WarnsAbout(line, id) ==
    line \in {MissingWarning(RasterPath(d, id)) : d \in {"object", "int64", "float64"}}

(***************************************************************************)
(* Properties.                                                             *)
(***************************************************************************)

\* C1: whenever get() returns, the list has exactly one entry per input point
\* and entry i is the outcome of point i: in single-raster mode the value the
\* raster holds at point i, in directory mode either None or the value that the
\* raster of a tile containing point i holds at point i.
C1_OneEntryPerPoint ==
    pc = "done" =>
        /\ Len(ret) = Len(coords)
        /\ \A i \in 1..Len(coords) :
              IF is_dir
              THEN \/ ret[i] = None
                   \/ \E id \in TilesOf(i) : ret[i] = Elev(TileFile(id), coords[i])
              ELSE ret[i] = Elev(ImagesFolder, coords[i])

\* C2: in directory mode a point within no tile extent keeps None at its own
\* index from the join to the return, its coordinates are in no sampler batch,
\* a run is only ever aborted by a failure to open or sample an existing raster,
\* and the unmatched-points warning is printed exactly once when some point is
\* unmatched and not at all when every point is matched.
C2_UnmatchedSentinel ==
    AfterJoin =>
        /\ \A i \in UnmatchedPoints :
              /\ elevations[i] = None
              /\ pc = "done" => ret[i] = None
              /\ \A c \in 1..Len(calls) :
                    \A k \in 1..Len(calls[c].batch) : calls[c].batch[k] # coords[i]
        /\ Count(log, LAMBDA l : l = UnmatchedWarning)
              = (IF UnmatchedPoints # {} THEN 1 ELSE 0)
        /\ pc = "raised" =>
              /\ error \in {"RasterioIOError", "SampleError"}
              /\ exists(raster_path)

C2_Witness ==
    /\ pc = "done"
    /\ is_dir
    /\ UnmatchedPoints # {}
    /\ \E i \in 1..Len(coords) : i \notin UnmatchedPoints /\ ret[i] # None
    /\ \E i \in UnmatchedPoints : i < Len(coords) /\ ret[i] = None

\* C3: in directory mode, when get() returns and the raster file of a tile that
\* has matched points is missing, every point of that tile has None, exactly
\* one "Raster not found" line is about that tile, and every point of another
\* tile has the result it has in the run in which that file is present.
C3_MissingRasterIsolated ==
    (pc = "done" /\ is_dir) =>
        \A id \in TileIds :
            (BatchOf(id) # <<>> /\ ~exists(TileFile(id))) =>
                /\ \A i \in 1..Len(coords) : id \in TilesOf(i) => ret[i] = None
                /\ Count(log, LAMBDA l : WarnsAbout(l, id)) = 1
                /\ \A j \in 1..Len(coords) :
                      (TilesOf(j) # {} /\ id \notin TilesOf(j)) =>
                          ret[j] = RunResult(files \cup {TileFile(id)})[j]

\* C4: in directory mode, when get() returns, every tile that has a matched
\* point and an existing raster file has exactly one sampler invocation, on its
\* raster, with the coordinates of all its points in input order; every other
\* tile has none, and there is no other invocation.
C4_OneSamplePerTile ==
    (pc = "done" /\ is_dir) =>
        /\ \A id \in TileIds :
              IF BatchOf(id) # <<>> /\ exists(TileFile(id))
              THEN /\ Count(calls, LAMBDA c : c.path = TileFile(id)) = 1
                   /\ \E c \in 1..Len(calls) :
                         calls[c] = [path |-> TileFile(id), batch |-> BatchOf(id)]
              ELSE Count(calls, LAMBDA c : RasterNo(c.path) = id) = 0
        /\ \A c \in 1..Len(calls) : \E id \in TileIds : calls[c].path = TileFile(id)

\* C5: for an empty point input no raster is opened, the sampler is not
\* invoked, nothing is printed, and a returning get() returns the empty list,
\* in both modes.
C5_EmptyInput ==
    coords = <<>> =>
        /\ opens = <<>>
        /\ calls = <<>>
        /\ log = <<>>
        /\ pc = "done" => ret = <<>>

\* C6: in directory mode a point within two or more tile extents has exactly
\* one row in the join (one group), is in the batch of at most one sampler
\* invocation, has its index assigned at most once, and the returned list has
\* one entry per input point.
C6_OverlapSingleMatch ==
    AfterJoin =>
        \A i \in 1..Len(coords) :
            Cardinality(TilesOf(i)) >= 2 =>
                /\ Count(joined, LAMBDA r : r.original_index = i - 1) = 1
                /\ writes[i] <= 1
                /\ pc = "done" => Len(ret) = Len(coords)

\* C7: a returning run of directory mode has written no index twice and has no
\* index outside the groups and the unmatched set: every position of the list
\* is the single row of one point, so a double or a missing write never reaches
\* the caller as a result.
C7_IntegrityOrAbort ==
    (pc = "done" /\ is_dir) =>
        /\ \A k \in 1..Len(writes) : writes[k] <= 1
        /\ \A k \in 1..Len(ret) :
              Count(joined, LAMBDA r : r.original_index = k - 1) = 1

\* C8: containment matching, sampling and the return of directory mode only
\* happen with the points and the tile index in the same reference frame.
C8_FramesAgree ==
    AfterJoin => srtm_crs = coords_crs

\* C9: at most one raster handle is open at any time, none is open when a
\* raster is about to be opened, and none is open once get() has returned or
\* raised, whether or not the sampler raised.
C9_HandlesReleased ==
    /\ Cardinality(open) <= 1
    /\ pc \in {"single_open", "dir_open"} => open = {}
    /\ pc \in {"done", "raised"} => open = {}
    /\ pc \in {"scatter", "loop", "single_return"} => open = {}

C9_Witness ==
    /\ pc = "raised"
    /\ error = "SampleError"
    /\ Len(opens) = 2
    /\ open = {}

\* C10: is_dir does not change after construction; when images_folder was not
\* a directory at construction and does not exist when get() runs, get() takes
\* the single-raster branch and raises FileNotFoundError with no raster opened,
\* no sampler invocation and no result list, whatever the points.
C10_MissingPath ==
    /\ [](  (InGet /\ fs_kind = "missing" /\ (~fs_changed \/ ~is_dir)) =>
               /\ ~is_dir
               /\ pc \in {"single", "raised"}
               /\ pc = "raised" => error = "FileNotFoundError"
               /\ opens = <<>>
               /\ calls = <<>>
               /\ elevations = <<>>
               /\ ret = <<>> )
    /\ [][ /\ pc \notin {"start", "loaded"} => is_dir' = is_dir
           /\ (pc = "single" /\ fs_kind = "missing") => pc' = "raised" ]_vars

C10_Witness ==
    /\ pc = "raised"
    /\ error = "FileNotFoundError"
    /\ coords = <<>>
    /\ fs_kind = "missing"

====
